---- MODULE Spec2Model ----
(***************************************************************************)
(* Model of the RAE health-check pipeline (RAEAutomation.py main) and of   *)
(* the HTTP wrappers of welldataAPI.py it calls.                           *)
(*                                                                         *)
(* The specifications of the module:                                       *)
(*   Spec          the whole run: token, job listing, per-job loop,        *)
(*                 workbook, email;                                        *)
(*   SpecHttp      one invocation of an HTTP wrapper against every pair of *)
(*                 server outcomes;                                        *)
(*   SpecClassify  the channel classifier applied to every small snapshot; *)
(*   SpecDiscovery the lookup table and the rig filter on every small      *)
(*                 listing and rig-token list;                             *)
(*   SpecSelect    attribute resolution on every small attribute list;     *)
(*   SpecTelemetry the mapping of the first time record and the classifier *)
(*                 on every small telemetry response;                      *)
(*   SpecReport    the report schema dispatch and the activity rows on     *)
(*                 every sample payload;                                   *)
(*   SpecPages     the page loop of the job listing on every small         *)
(*                 provider;                                               *)
(*   SpecHist      one telemetry call against every sequence of server     *)
(*                 outcomes;                                               *)
(*   SpecRuns      launches of the script as separate processes.           *)
(***************************************************************************)
EXTENDS Integers, Sequences, FiniteSets, TLC

VARIABLES
    pc,                 \* position of main()
    token,              \* value bound to `token` in main
    tokLog,             \* outcomes of the attempts of getToken, in order
    tokWaits,           \* waits tenacity made between attempts of getToken
    tmpAllJobs,         \* the job listing main iterates
    idx,                \* index in tmpAllJobs of the job being processed
    loc,                \* the per-job locals of the loop body
    attsLst,            \* the channel selection of the current job
    r,                  \* the report listing of the current job
    RAEJobs,            \* the accumulated rows
    ZeroReportList,     \* job ids without morning report
    processedJobList,   \* jobs whose report matched no schema
    MR_Report_Comments, \* activity rows of all jobs
    wellList,           \* job at which an exception escaped the loop
    calls,              \* every wrapper invocation made so far
    jobLog,             \* what happened to each iterated job
    written,            \* the workbook was written
    emails,             \* number of emails sent
    lookup_table,       \* "owner name" -> job id, in insertion order
    tmpJobs,            \* the ids the rig filter kept
    q,                  \* the attribute response of the current job
    hist,               \* the telemetry response of the current job
    attribute_mapping,  \* attribute id -> value of the first time record
    report,             \* the report content of the current job
    hc,                 \* SpecHttp: the wrapper invocation under test
    cl,                 \* SpecClassify: the snapshot under test and its result
    dc,                 \* SpecDiscovery: the listing and rig tokens under test
    rp,                 \* SpecReport: the report payload under test
    sel,                \* SpecSelect: the attribute list under test
    tm,                 \* SpecTelemetry: the telemetry response under test
    pg,                 \* SpecPages: the listing call under test
    ht,                 \* SpecHist: the telemetry call under test
    runs                \* SpecRuns: position of each launched process

vars == <<pc, token, tokLog, tokWaits, tmpAllJobs, idx, loc, attsLst, r,
          RAEJobs, ZeroReportList, processedJobList, MR_Report_Comments,
          wellList, calls, jobLog, written, emails, lookup_table, tmpJobs,
          q, hist, attribute_mapping, report, hc, cl, dc, rp, sel, tm, pg, ht, runs>>

mainVars == <<pc, token, tokLog, tokWaits, tmpAllJobs, idx, loc, attsLst, r,
              RAEJobs, ZeroReportList, processedJobList, MR_Report_Comments,
              wellList, calls, jobLog, written, emails, lookup_table, tmpJobs,
              q, hist, attribute_mapping, report>>

\* the results of job discovery, and the responses the loop body keeps
discVars == <<lookup_table, tmpJobs>>
fetched == <<q, hist, attribute_mapping, report>>

----------------------------------------------------------------------------
(* Bounds *)

MaxVal == 2          \* snapshot numbers range over -1..MaxVal
MaxSnap == 2         \* entries of a snapshot drawn for the classifier
MaxJobs == 2         \* length of the job listing
MaxRigs == 2         \* number of configured rig tokens
MaxAttrs == 2        \* attributes of a job drawn for the selection
MaxRecs == 2         \* time records of a telemetry response
MaxItems == 2        \* activity items of a report payload
MaxTake == 3         \* the take argument of the job listing
MaxHeld == 3         \* jobs the provider holds
MaxProcs == 3        \* launches of the script

----------------------------------------------------------------------------
(* Python values as they arrive in JSON: a type tag, a number, a string *)

PyInt(k) == [t |-> "int", n |-> k, s |-> ""]
PyFloat(k) == [t |-> "float", n |-> k, s |-> ""]
PyBool(b) == [t |-> "bool", n |-> IF b THEN 1 ELSE 0, s |-> ""]
PyNull == [t |-> "null", n |-> 0, s |-> ""]
PyStr(x) == [t |-> "str", n |-> 0, s |-> x]

Values ==
    {PyInt(k) : k \in -1..MaxVal} \cup {PyFloat(k) : k \in -1..MaxVal}
        \cup {PyNull, PyStr("x"), PyBool(TRUE), PyBool(FALSE)}

\* isinstance(v, int): bool is a subclass of int
IsInt(v) == v.t \in {"int", "bool"}
IsFloat(v) == v.t = "float"
\* v == k for an integer literal k: numbers compare by value, others are unequal
PyEq(v, k) == v.t \in {"int", "float", "bool"} /\ v.n = k

emoji_check == 3
emoji_exclamation == 2
emoji_x == 0

----------------------------------------------------------------------------
(* The per-job locals, RAEAutomation.py lines 207-251 *)

\* a status local that can hold the int code or a display string
StInt(k) == [t |-> "int", n |-> k, s |-> ""]
StStr(x) == [t |-> "str", n |-> 0, s |-> x]

DefaultLocals ==
    [HookLoadbool |-> emoji_x, PumpPressurebool |-> emoji_x,
     BlockHeightbool |-> emoji_x, PumpSpmbool |-> emoji_x,
     PumpSpm2bool |-> emoji_x, PumpSpm3bool |-> emoji_x,
     RotaryTorquebool |-> emoji_x, BitPositionbool |-> emoji_x,
     BitStatusbool |-> StInt(emoji_x), SlipStatusbool |-> StInt(emoji_x),
     tpDriveRPM |-> emoji_x, comment |-> "NA", comment24 |-> "NA",
     reportDate |-> "", reportID |-> "", tpDriveTorq |-> emoji_x,
     weightonBit |-> emoji_x, RP_Fast |-> emoji_x, tHookLoad |-> emoji_x,
     Iadc_Rig_val |-> PyStr(""), Iadc2_Rig_val |-> PyStr(""),
     Iadc3_Rig_val |-> PyStr("")]

----------------------------------------------------------------------------
(* Channel classifier, RAEAutomation.py lines 445-686 *)

\* the keys the classifier looks for in attribute_mapping
NumericKeys ==
    {"HookLoad", "PumpPressure", "BlockHeight", "PumpSpm", "PumpSpm2",
     "PumpSpm3", "RotaryTorque", "TopDrvRpm", "TopDrvTorque",
     "BitWeightQualified", "BitPosition", "FastRopFtHr", "TrigHkld"}
EnumKeys == {"BitStatus", "SlipStatus"}
IadcKeys == {"IadcRigActivity", "IadcRigActivity2", "RigActivity"}
SnapshotKeys == NumericKeys \cup EnumKeys \cup IadcKeys \cup {"Other"}

\* the local each numeric key sets
LocalOf(key) ==
    CASE key = "HookLoad" -> "HookLoadbool"
      [] key = "PumpPressure" -> "PumpPressurebool"
      [] key = "BlockHeight" -> "BlockHeightbool"
      [] key = "PumpSpm" -> "PumpSpmbool"
      [] key = "PumpSpm2" -> "PumpSpm2bool"
      [] key = "PumpSpm3" -> "PumpSpm3bool"
      [] key = "RotaryTorque" -> "RotaryTorquebool"
      [] key = "TopDrvRpm" -> "tpDriveRPM"
      [] key = "TopDrvTorque" -> "tpDriveTorq"
      [] key = "BitWeightQualified" -> "weightonBit"
      [] key = "BitPosition" -> "BitPositionbool"
      [] key = "FastRopFtHr" -> "RP_Fast"
      [] key = "TrigHkld" -> "tHookLoad"

\* a rule that stores the value in place of its code
NumericRule_StoreValue(old, v) == IF IsFloat(v) \/ IsInt(v) THEN v.n ELSE old

\* HookLoad and the ten channels written like it: float or int is classified,
\* anything else leaves the local as it was
NumericRule(old, v) ==
    IF IsFloat(v) \/ IsInt(v)
    THEN IF v.n = 0 THEN emoji_exclamation
         ELSE IF v.n > 0 THEN emoji_check
         ELSE emoji_x
    ELSE old

\* RotaryTorque: only isinstance(value, int) is classified
RotaryTorqueRule(old, v) ==
    IF IsInt(v)
    THEN IF v.n > 0 THEN emoji_check
         ELSE IF v.n = 0 THEN emoji_exclamation
         ELSE emoji_x
    ELSE old

\* the chain with `else` in place of `elif BitStatus_val == 1`
BitStatusRule_ElseOff(v) == IF PyEq(v, 0) THEN StStr("On") ELSE StStr("Off")

BitStatusRule(v) ==
    IF PyEq(v, 0) THEN StStr("On")
    ELSE IF PyEq(v, 1) THEN StStr("Off")
    ELSE StInt(emoji_x)

SlipStatusRule(v) ==
    IF PyEq(v, 0) THEN StStr("Resetting")
    ELSE IF PyEq(v, 1) THEN StStr("in")
    ELSE IF PyEq(v, 2) THEN StStr("out")
    ELSE StInt(emoji_x)

\* one pass of `for key, value in attribute_mapping.items()` over the locals l
Has(m, key) == key \in DOMAIN m
\* a pass that marks a channel without a value as WARN
Num_AbsentWarn(m, l, key, field) ==
    IF Has(m, key) THEN NumericRule(l[field], m[key]) ELSE emoji_exclamation
Num(m, l, key, field) == IF Has(m, key) THEN NumericRule(l[field], m[key]) ELSE l[field]

Classify(m, l) ==
    [l EXCEPT
       !.HookLoadbool = Num(m, l, "HookLoad", "HookLoadbool"),
       !.PumpPressurebool = Num(m, l, "PumpPressure", "PumpPressurebool"),
       !.BlockHeightbool = Num(m, l, "BlockHeight", "BlockHeightbool"),
       !.PumpSpmbool = Num(m, l, "PumpSpm", "PumpSpmbool"),
       !.PumpSpm2bool = Num(m, l, "PumpSpm2", "PumpSpm2bool"),
       !.PumpSpm3bool = Num(m, l, "PumpSpm3", "PumpSpm3bool"),
       !.RotaryTorquebool =
           IF Has(m, "RotaryTorque") THEN RotaryTorqueRule(@, m["RotaryTorque"]) ELSE @,
       !.tpDriveRPM = Num(m, l, "TopDrvRpm", "tpDriveRPM"),
       !.tpDriveTorq = Num(m, l, "TopDrvTorque", "tpDriveTorq"),
       !.weightonBit = Num(m, l, "BitWeightQualified", "weightonBit"),
       !.BitPositionbool = Num(m, l, "BitPosition", "BitPositionbool"),
       !.BitStatusbool = IF Has(m, "BitStatus") THEN BitStatusRule(m["BitStatus"]) ELSE @,
       !.RP_Fast = Num(m, l, "FastRopFtHr", "RP_Fast"),
       !.SlipStatusbool = IF Has(m, "SlipStatus") THEN SlipStatusRule(m["SlipStatus"]) ELSE @,
       !.tHookLoad = Num(m, l, "TrigHkld", "tHookLoad"),
       !.Iadc_Rig_val = IF Has(m, "IadcRigActivity") THEN m["IadcRigActivity"] ELSE @,
       !.Iadc2_Rig_val = IF Has(m, "IadcRigActivity2") THEN m["IadcRigActivity2"] ELSE @,
       !.Iadc3_Rig_val = IF Has(m, "RigActivity") THEN m["RigActivity"] ELSE @]

\* the snapshots the classifier is tried on: at most MaxSnap keys, any values
RECURSIVE KeySets(_)
KeySets(k) ==
    IF k = 0 THEN {{}}
    ELSE KeySets(k - 1) \cup {S \cup {key} : S \in KeySets(k - 1), key \in SnapshotKeys}

Snapshots == UNION {[K -> Values] : K \in KeySets(MaxSnap)}

ClassifyIdle == cl = [state |-> "idle"]

ClassifyInit ==
    \E m \in Snapshots : cl = [state |-> "snapshot", m |-> m, out |-> DefaultLocals]

\* lines 445-686 applied to the snapshot
ClassifyStep ==
    /\ cl.state = "snapshot"
    /\ cl' = [cl EXCEPT !.state = "classified", !.out = Classify(cl.m, cl.out)]
    /\ UNCHANGED <<mainVars, hc, dc, rp, sel, tm, pg, ht, runs>>

----------------------------------------------------------------------------
(* HTTP wrappers of welldataAPI.py *)

\* what one requests.get can do: raise, or answer with a status; a 200 whose
\* body is not JSON makes r.json() raise
Exc == [exc |-> TRUE, status |-> 0, json |-> FALSE]
Resp(code) == [exc |-> FALSE, status |-> code, json |-> TRUE]
BadJson == [exc |-> FALSE, status |-> 200, json |-> FALSE]
Statuses == {200, 302, 400, 404, 410, 429, 500, 503}
Outcomes == {Exc, BadJson} \cup {Resp(code) : code \in Statuses}
\* what the token endpoint is tried with: every status, one kind of exception
TokenOutcomes == Outcomes \ {BadJson}
\* the outcomes the per-job calls of a whole run are explored with: one of each kind
RunOutcomes == {Exc, Resp(200), Resp(500)}

\* Python: an int compared with a range object is never equal
IntEqRange(code, lo, hi) == FALSE
\* Python: a non-zero int is true, a non-empty range is true
Truthy(k) == k # 0
RangeTruthy(lo, hi) == hi > lo

\* the condition with range membership: 5xx or 400..409 is retried
RetryCond_Ranges(code) == code # 200 /\ (code \in 500..598 \/ code \in 400..409)

\* `r.status_code != 200 and r.status_code == range(500, 599, 1) or 400`
RetryCond(code) == (code # 200 /\ IntEqRange(code, 500, 599)) \/ Truthy(400)
\* `r.status_code != 200 and (r.status_code == range(500,599,1) or range(400,410,1))`
RetryCondJobsId(code) == code # 200 /\ (IntEqRange(code, 500, 599) \/ RangeTruthy(400, 410))
\* `r.status_code != 200 and r.status_code == range(400, 599, 1) or 400`
RetryCondReportList(code) == (code # 200 /\ IntEqRange(code, 400, 599)) \/ Truthy(400)

NoResult(n, sl) == [result |-> << >>, requests |-> n, sleeps |-> sl, raised |-> FALSE]
Result(w, n, sl) == [result |-> w, requests |-> n, sleeps |-> sl, raised |-> FALSE]

\* The try/except skeleton the wrappers share: a request, on 200 the rows
\* `ok` are appended; on a status the elif condition accepts (`retry`), a sleep of `delay`
\* and one more request; an exception in the first request or its r.json()
\* is caught by the outer handler (sleep(retries), retries = 1), one in the
\* second by the inner handler; the function then returns wells.
RequestTwice(retry, delay, o1, o2, ok) ==
    IF o1.exc THEN NoResult(1, <<1>>)
    ELSE IF o1.status = 200
         THEN IF o1.json THEN Result(ok, 1, << >>) ELSE NoResult(1, <<1>>)
    ELSE IF retry
         THEN IF o2.exc THEN NoResult(2, <<delay>>)
              ELSE IF o2.status = 200 /\ o2.json THEN Result(ok, 2, <<delay>>)
              ELSE NoResult(2, <<delay>>)
    ELSE NoResult(1, << >>)

\* getApiCall(URL, token, CFG, jobId): wells = [r.json()] or []
getApiCall(o1, o2, payload) == RequestTwice(RetryCond(o1.status), 20, o1, o2, <<payload>>)

\* getJobs with jobId (URL without includeCapabilities): wells = [r.json()] or []
getJobsById(o1, o2, payload) == RequestTwice(RetryCondJobsId(o1.status), 20, o1, o2, <<payload>>)

\* the page the provider answers a listing URL with: `take` jobs after the
\* first `skip` of those it holds
PageOf(held, skip, take) ==
    SubSeq(held, skip + 1, IF skip + take < Len(held) THEN skip + take ELSE Len(held))

\* `while currTake <= take`: one request of parsedPath (built once, before
\* the loop, from the take and skip of the call), wells extended by
\* values['jobs'] (no contractor/operator/rig filter), then
\* skip = skip + currTake and currTake = currTake + take
RECURSIVE getJobsWhile(_, _, _, _, _, _, _, _)
getJobsWhile(take, currTake, skip, parsedPath, o1, o2, held, w) ==
    IF currTake <= take
    THEN LET res == RequestTwice(RetryCond(o1.status), 20, o1, o2,
                                 PageOf(held, parsedPath.skip, parsedPath.take))
         IN  getJobsWhile(take, currTake + take, skip + currTake, parsedPath, o1, o2, held,
                 [result |-> w.result \o res.result,
                  requests |-> w.requests + res.requests,
                  sleeps |-> w.sleeps \o res.sleeps,
                  urls |-> Append(w.urls, parsedPath)])
    ELSE w

\* getJobs listing with take and skip (URL with includeCapabilities):
\* currTake = 1, wells = []
getJobsPaged(take, skip, o1, o2, held) ==
    getJobsWhile(take, 1, skip, [take |-> take, skip |-> skip], o1, o2, held,
                 [result |-> << >>, requests |-> 0, sleeps |-> << >>, urls |-> << >>])

\* getJobs listing as main calls it (no skip given: skip = 0)
getJobsList(take, o1, o2, jobs) ==
    LET w == getJobsPaged(take, 0, o1, o2, jobs)
    IN  [result |-> w.result, requests |-> w.requests, sleeps |-> w.sleeps, raised |-> FALSE]

\* getReports without reportId: wells = values['availableReports']
getReportsList(o1, o2, available) == RequestTwice(RetryCondReportList(o1.status), 10, o1, o2, available)

\* getReports with reportId: wells = [r.json()] or []
getReportsContent(o1, o2, payload) == RequestTwice(RetryCond(o1.status), 20, o1, o2, <<payload>>)

\* SpecHttp: one invocation of a wrapper for every pair of outcomes
HttpFns == {"getApiCall", "getJobsById", "getJobsList", "getReportsList", "getReportsContent"}
SamplePayload == "payload"
SampleList == <<"e1", "e2">>

HttpIdle == hc = [state |-> "idle"]

HttpInit ==
    \E fn \in HttpFns, o1 \in Outcomes, o2 \in Outcomes :
        hc = [state |-> "call", fn |-> fn, o1 |-> o1, o2 |-> o2, res |-> NoResult(0, << >>)]

HttpReturn(res) ==
    /\ hc' = [hc EXCEPT !.state = "returned", !.res = res]
    /\ UNCHANGED <<mainVars, cl, dc, rp, sel, tm, pg, ht, runs>>

CallGetApiCall ==
    /\ hc.state = "call" /\ hc.fn = "getApiCall"
    /\ HttpReturn(getApiCall(hc.o1, hc.o2, SamplePayload))

CallGetJobs ==
    /\ hc.state = "call"
    /\ \/ hc.fn = "getJobsById" /\ HttpReturn(getJobsById(hc.o1, hc.o2, SamplePayload))
       \/ hc.fn = "getJobsList" /\ HttpReturn(getJobsList(1000, hc.o1, hc.o2, SampleList))

\* SpecPages: the listing call for every take, every number of jobs the
\* provider holds and every pair of outcomes
PagesIdle == pg = [state |-> "idle"]

PagesInit ==
    \E take \in 0..MaxTake, n \in 0..MaxHeld, o1 \in Outcomes, o2 \in Outcomes :
        pg = [state |-> "call", take |-> take, held |-> [i \in 1..n |-> i],
              o1 |-> o1, o2 |-> o2, res |-> getJobsPaged(0, 0, Exc, Exc, << >>)]

CallGetJobsPaged ==
    /\ pg.state = "call"
    /\ pg' = [pg EXCEPT !.state = "returned",
                        !.res = getJobsPaged(pg.take, 0, pg.o1, pg.o2, pg.held)]
    /\ UNCHANGED <<mainVars, hc, cl, dc, rp, sel, tm, ht, runs>>

CallGetReports ==
    /\ hc.state = "call"
    /\ \/ hc.fn = "getReportsList" /\ HttpReturn(getReportsList(hc.o1, hc.o2, SampleList))
       \/ hc.fn = "getReportsContent" /\ HttpReturn(getReportsContent(hc.o1, hc.o2, SamplePayload))

----------------------------------------------------------------------------
(* tenacity: @retry(stop=stop_after_attempt(n), wait=wait_fixed(2),         *)
(* retry_error_callback=lambda _: print("Retrying..."))                     *)

StopAfterAttempt == 4        \* getToken, getApiCall, getJobs, getReports
StopAfterAttemptHist == 3    \* historical_data_time
WaitFixed == 2

\* the value a decorated call returns when its last attempt raised: the
\* callback's return value, and print returns None
None == "None"

----------------------------------------------------------------------------
(* Provider data the run can meet *)

JobIds == {"j1", "j2"}

RECURSIVE SeqsUpTo(_, _)
SeqsUpTo(S, k) ==
    IF k = 0 THEN {<< >>}
    ELSE SeqsUpTo(S, k - 1) \cup {Append(sq, x) : sq \in SeqsUpTo(S, k - 1), x \in S}

\* a job of the listing: its id and assetInfoList[0]; owner and name are
\* sequences of characters, so that `w in key` is a search
Job(id, owner, name) == [id |-> id, owner |-> owner, name |-> name]
\* the listing entry of a job id in a whole run: rig "1" for j1, rig "2" for j2
Listed(id) == Job(id, <<"P">>, IF id = "j1" THEN <<"1">> ELSE <<"2">>)

\* listings up to renaming of the ids: the first job is j1
JobLists ==
    {[i \in DOMAIN ids |-> Listed(ids[i])] :
        ids \in {s \in SeqsUpTo(JobIds, MaxJobs) : s # << >> => s[1] = "j1"}}

\* CFG['RAE_Rigs'] of a whole run: one rig token
RAE_Rigs == <<<<"1">>>>

\* GET /jobs/<id>: the identity fields a row starts with
JobInfo(id) == [owner |-> "Contractor", name |-> "Rig", siteOwner |-> "Operator", jobName |-> id]

\* GET /jobs/<id>/attributes
Attr(id, mn, has) == [id |-> id, mnemonic |-> mn, hasData |-> has]
AttrPayloads ==
    {<< >>,
     <<Attr("a1", "HOOKLOAD_MAX", TRUE)>>,
     <<Attr("a1", "HOOKLOAD_MAX", FALSE), Attr("a2", "UNKNOWN", TRUE)>>,
     <<Attr("a1", "STP_PRS_1", TRUE), Attr("a2", "BIT_ON_BTM", TRUE)>>}

\* POST /jobs/<id>/data/time: attributes, and per time record one value per
\* attribute (the source reads values[i][1]; the model keeps that element)
Hist(attrs, recs) == [kind |-> "data", attributes |-> attrs, timeRecords |-> recs]
\* a JSON body without timeRecords (what a non-200 answer carries)
HistError == [kind |-> "error", attributes |-> << >>, timeRecords |-> << >>]
\* the None the retry callback returns
HistNone == [kind |-> "None", attributes |-> << >>, timeRecords |-> << >>]
HistPayloads ==
    {Hist(<<"HookLoad">>, << >>),
     Hist(<<"HookLoad">>, <<<<PyFloat(1)>>, <<PyFloat(0)>>>>),
     Hist(<<"PumpPressure", "BitStatus">>, <<<<PyInt(0), PyInt(1)>>>>),
     Hist(<<"RotaryTorque", "SlipStatus">>, <<<<PyFloat(1), PyInt(2)>>>>),
     Hist(<<"HookLoad", "PumpPressure">>, <<<<PyInt(1)>>>>),
     Hist(<<"a1">>, <<<<PyFloat(25000)>>>>)}

\* GET /jobs/<id>/reports/daily/2
ReportLists == {<< >>, <<[id |-> "r1", date |-> "d1"]>>}

\* GET /jobs/<id>/reports/daily/2/JSON: the schema key of Reports[0], the
\* marker names that occur elsewhere in the serialized payload, the header
\* fields and the activity rows
Report(key, mentions, next24, items) ==
    [key |-> key, mentions |-> mentions, date |-> "2024-01-10", ops |-> "Drilling ahead",
     hasNext24 |-> next24, next24 |-> "Trip out", reportID |-> "rid", items |-> items]
Item(hasCode, hasDetails) == [hasCode |-> hasCode, hasDetails |-> hasDetails, code |-> "c", text |-> "d"]
ReportPayloads ==
    {Report("GenericAmericanMorningReportDW", {}, TRUE, <<Item(TRUE, TRUE)>>),
     Report("PattersonMorningReportRevB", {}, FALSE, << >>),
     Report("OtherReport", {}, FALSE, << >>),
     Report("OtherReport", {"HandPMorningReport"}, FALSE, << >>)}

----------------------------------------------------------------------------
(* Job discovery, RAEAutomation.py lines 173-193 *)

\* `w in key` on strings
Substring(t, k) == \E i \in 0..(Len(k) - Len(t)) : SubSeq(k, i + 1, i + Len(t)) = t

\* f"{owner} {name}"
JobKey(w) == w.owner \o <<" ">> \o w.name

\* d[k] = v on a dict, kept as the sequence of its items: an existing key
\* keeps its place and takes the new value, a new key goes to the end
DictSet(d, k, v) ==
    IF \E i \in DOMAIN d : d[i][1] = k
    THEN [i \in DOMAIN d |-> IF d[i][1] = k THEN <<k, v>> ELSE d[i]]
    ELSE Append(d, <<k, v>>)

\* lines 176-181
RECURSIVE BuildLookup(_, _)
BuildLookup(jobs, d) ==
    IF jobs = << >> THEN d
    ELSE BuildLookup(Tail(jobs), DictSet(d, JobKey(Head(jobs)), Head(jobs).id))

\* lines 191-193 for one rig token w
RECURSIVE MatchesOf(_, _)
MatchesOf(w, d) ==
    IF d = << >> THEN << >>
    ELSE (IF Substring(w, d[1][1]) THEN <<d[1][2]>> ELSE << >>) \o MatchesOf(w, Tail(d))

\* the filter with the loops swapped: for each key, for each rig token
RECURSIVE FilterJobs_KeyMajor(_, _)
FilterJobs_KeyMajor(rigs, d) ==
    IF d = << >> THEN << >>
    ELSE LET hits == SelectSeq(rigs, LAMBDA w : Substring(w, d[1][1]))
         IN  [i \in DOMAIN hits |-> d[1][2]] \o FilterJobs_KeyMajor(rigs, Tail(d))

\* lines 190-193: for each rig token, for each item of the lookup table
RECURSIVE FilterJobs(_, _)
FilterJobs(rigs, d) ==
    IF rigs = << >> THEN << >>
    ELSE MatchesOf(Head(rigs), d) \o FilterJobs(Tail(rigs), d)

\* SpecDiscovery: the listings and rig tokens discovery is tried on
RigNames == {<<"1">>, <<"2">>, <<"1", "2">>}
RigTokens == {<<"1">>, <<"2">>, <<"P">>}
DiscJobs == {Job(id, <<"P">>, name) : id \in JobIds, name \in RigNames}

DiscIdle == dc = [state |-> "idle"]

DiscInit ==
    \E n \in 0..MaxJobs, k \in 0..MaxRigs :
        \E jobs \in [1..n -> DiscJobs], rigs \in [1..k -> RigTokens] :
            dc = [state |-> "listed", jobs |-> jobs, rigs |-> rigs,
                  lookup_table |-> << >>, tmpJobs |-> << >>]

\* lines 174-193 on the listing
Discover ==
    /\ dc.state = "listed"
    /\ LET d == BuildLookup(dc.jobs, << >>)
       IN  dc' = [dc EXCEPT !.state = "filtered", !.lookup_table = d,
                            !.tmpJobs = FilterJobs(dc.rigs, d)]
    /\ UNCHANGED <<mainVars, hc, cl, rp, sel, tm, pg, ht, runs>>

----------------------------------------------------------------------------
(* Attribute resolution, RAEAutomation.py lines 269-342 *)

\* the mnemonic each of the 18 `if` statements of the loop body compares with
MnemonicIfs ==
    <<"HOOKLOAD_MAX", "STP_PRS_1", "BLOCK_POS", "MP1_SPM", "MP2_SPM", "MP3_SPM",
      "ROT_TORQUE", "TD_SPEED", "TD_TORQUE", "WOB", "BIT_DEPTH", "BIT_ON_BTM",
      "FAST_ROP_FT_HR", "SLIPS_STAT", "Trigger Hkld", "IADC_RIG_ACTIVITY",
      "IADC_RIG_ACTIVITY2", "IADC_RIG_ACTIVITY3">>

Mnemonics == {MnemonicIfs[i] : i \in DOMAIN MnemonicIfs}

\* Attribute(id=c['id'], mode='Last')
Attribute(id, mode) == [id |-> id, mode |-> mode]

\* the selection without the test of hasData
RECURSIVE SelectAttributes_AnyData(_)
SelectAttributes_AnyData(attrs) ==
    IF attrs = << >> THEN << >>
    ELSE LET c == Head(attrs)
             hits == SelectSeq(MnemonicIfs, LAMBDA m : c.mnemonic = m)
         IN  [i \in DOMAIN hits |-> Attribute(c.id, "Last")]
                 \o SelectAttributes_AnyData(Tail(attrs))

\* for each attribute, each `if` whose test holds appends one entry
RECURSIVE SelectAttributes(_)
SelectAttributes(attrs) ==
    IF attrs = << >> THEN << >>
    ELSE LET c == Head(attrs)
             hits == SelectSeq(MnemonicIfs, LAMBDA m : c.hasData /\ c.mnemonic = m)
         IN  [i \in DOMAIN hits |-> Attribute(c.id, "Last")] \o SelectAttributes(Tail(attrs))

\* SpecSelect: the attribute lists the selection is tried on
AttrIds == {"a1", "a2"}
AllAttrs ==
    {Attr(id, mn, has) : id \in AttrIds, mn \in Mnemonics \cup {"UNKNOWN"}, has \in BOOLEAN}

SelectIdle == sel = [state |-> "idle"]

SelectInit ==
    \E n \in 0..MaxAttrs :
        \E attrs \in [1..n -> AllAttrs] :
            sel = [state |-> "fetched", attrs |-> attrs, attsLst |-> << >>]

\* lines 269-342 on an attribute list
Select ==
    /\ sel.state = "fetched"
    /\ sel' = [sel EXCEPT !.state = "selected", !.attsLst = SelectAttributes(sel.attrs)]
    /\ UNCHANGED <<mainVars, hc, cl, dc, rp, tm, pg, ht, runs>>

----------------------------------------------------------------------------
(* Telemetry, welldataAPI.py lines 193-204 and RAEAutomation.py 434-440 *)

\* a call that tests the status and retries an answer that is not 200
RECURSIVE HistAttempts_RetryStatus(_, _, _)
HistAttempts_RetryStatus(os, k, payload) ==
    LET o == os[k]
    IN  IF o.exc \/ ~o.json \/ o.status # 200
        THEN IF k >= StopAfterAttemptHist
             THEN [result |-> HistNone, requests |-> k, waits |-> k - 1]
             ELSE HistAttempts_RetryStatus(os, k + 1, payload)
        ELSE [result |-> payload, requests |-> k, waits |-> k - 1]

\* historical_data_time under tenacity: an attempt raises when the POST or
\* r.json() raises and is retried after WaitFixed seconds; the status code is
\* printed, never tested, so any JSON body is returned; after the last attempt
\* raised the callback's None is returned
RECURSIVE HistAttempts(_, _, _)
HistAttempts(os, k, payload) ==
    LET o == os[k]
    IN  IF o.exc \/ ~o.json
        THEN IF k >= StopAfterAttemptHist
             THEN [result |-> HistNone, requests |-> k, waits |-> k - 1]
             ELSE HistAttempts(os, k + 1, payload)
        ELSE [result |-> IF o.status = 200 THEN payload ELSE HistError,
              requests |-> k, waits |-> k - 1]

historical_data_time(os, payload) == HistAttempts(os, 1, payload)

\* SpecHist: one call for every sequence of outcomes of its attempts; a
\* non-200 answer may carry a body that is not JSON
ErrorPage == [exc |-> FALSE, status |-> 503, json |-> FALSE]
HistOutcomes == Outcomes \cup {ErrorPage}
HistSample == "payload"

HistIdle == ht = [state |-> "idle"]

HistInit ==
    \E os \in [1..StopAfterAttemptHist -> HistOutcomes] :
        ht = [state |-> "call", os |-> os,
              res |-> historical_data_time(<<Exc, Exc, Exc>>, HistSample)]

CallHistorical ==
    /\ ht.state = "call"
    /\ ht' = [ht EXCEPT !.state = "returned",
                        !.res = historical_data_time(ht.os, HistSample)]
    /\ UNCHANGED <<mainVars, hc, cl, dc, rp, sel, tm, pg, runs>>

\* the mapping read from the last time record
AttributeMapping_LastRecord(h) ==
    LET v0 == h.timeRecords[Len(h.timeRecords)]
    IN  [id \in {h.attributes[i] : i \in DOMAIN h.attributes} |->
            v0[CHOOSE i \in DOMAIN h.attributes : h.attributes[i] = id]]

\* attribute_mapping[attribute['id']] = values_timestamp_0[i][1]
AttributeMapping(h) ==
    LET v0 == h.timeRecords[1]
        ids == {h.attributes[i] : i \in DOMAIN h.attributes}
        last(id) == CHOOSE i \in DOMAIN h.attributes :
                        /\ h.attributes[i] = id
                        /\ \A j \in DOMAIN h.attributes : h.attributes[j] = id => j <= i
    IN  [id \in ids |-> v0[last(id)]]

\* values_timestamp_0[i] raises IndexError when the record is shorter than
\* the attributes list
MappingRaises(h) == Len(h.timeRecords[1]) < Len(h.attributes)

\* SpecTelemetry: the responses the mapping and the classifier are tried on:
\* distinct attribute ids, MaxRecs time records at most, one value per attribute
TelemetryIds == {"HookLoad", "BitStatus", "a1"}
TelemetryValues == {PyFloat(1), PyInt(0), PyNull}
DistinctSeqs(S, k) ==
    {s \in SeqsUpTo(S, k) : \A i, j \in DOMAIN s : s[i] = s[j] => i = j}
\* the lists of n time records for the attributes attrs
TimeRecords(attrs, n) == [1..n -> [DOMAIN attrs -> TelemetryValues]]

TelemetryIdle == tm = [state |-> "idle"]

TelemetryInit ==
    \E attrs \in DistinctSeqs(TelemetryIds, MaxSnap), n \in 1..MaxRecs :
        \E recs \in TimeRecords(attrs, n) :
            tm = [state |-> "fetched", hist |-> Hist(attrs, recs),
                  attribute_mapping |-> << >>, out |-> DefaultLocals]

\* lines 434-686 on a response with time records
MapAndClassify ==
    /\ tm.state = "fetched"
    /\ LET m == AttributeMapping(tm.hist)
       IN  tm' = [tm EXCEPT !.state = "classified", !.attribute_mapping = m,
                            !.out = Classify(m, @)]
    /\ UNCHANGED <<mainVars, hc, cl, dc, rp, sel, pg, ht, runs>>

----------------------------------------------------------------------------
(* Report schema dispatch, RAEAutomation.py lines 713-792 *)

MarkerOrder ==
    <<"GenericAmericanMorningReportDW", "HandPMorningReport", "ScanMorningReport",
      "RapadMorningReport", "PattersonMorningReportRevB">>

\* `marker in str(report)`: the marker is the schema key or occurs elsewhere
InStr(marker, p) == marker = p.key \/ marker \in p.mentions

\* a dispatch on the schema key of Reports[0] alone
Dispatch_KeyOnly(p) ==
    IF \E i \in DOMAIN MarkerOrder : MarkerOrder[i] = p.key
    THEN CHOOSE i \in DOMAIN MarkerOrder : MarkerOrder[i] = p.key
    ELSE 0

\* a chain that tests the markers in the reverse order
Dispatch_LastMarker(p) ==
    IF \E i \in DOMAIN MarkerOrder : InStr(MarkerOrder[i], p)
    THEN CHOOSE i \in DOMAIN MarkerOrder :
             /\ InStr(MarkerOrder[i], p)
             /\ \A j \in (i + 1)..Len(MarkerOrder) : ~InStr(MarkerOrder[j], p)
    ELSE 0

\* the if/elif chain: index of the first marker found, 0 for the else branch
Dispatch(p) ==
    IF \E i \in DOMAIN MarkerOrder : InStr(MarkerOrder[i], p)
    THEN CHOOSE i \in DOMAIN MarkerOrder :
             /\ InStr(MarkerOrder[i], p)
             /\ \A j \in 1..(i - 1) : ~InStr(MarkerOrder[j], p)
    ELSE 0

\* report[0]['Reports'][0][marker] raises KeyError when marker is not the key
ExtractRaises(p) == Dispatch(p) # 0 /\ MarkerOrder[Dispatch(p)] # p.key

\* comment24 per branch: Generic and Patterson set it when the field is
\* there, HandP sets '', Scan leaves it, Rapad always reads it
Comment24(p, old) ==
    LET m == MarkerOrder[Dispatch(p)]
    IN  CASE m = "GenericAmericanMorningReportDW" -> IF p.hasNext24 THEN p.next24 ELSE old
          [] m = "HandPMorningReport" -> ""
          [] m = "ScanMorningReport" -> old
          [] m = "RapadMorningReport" -> p.next24
          [] m = "PattersonMorningReportRevB" -> IF p.hasNext24 THEN p.next24 ELSE old

\* Rapad reads Header.OperationsActivityNext24Hours without a test
Next24Raises(p) ==
    Dispatch(p) # 0 /\ MarkerOrder[Dispatch(p)] = "RapadMorningReport" /\ ~p.hasNext24

\* a loop that appends a tuple for every item, with '' for a field the item
\* does not have
RECURSIVE ActivityRows_EveryItem(_, _, _, _)
ActivityRows_EveryItem(well, rep, items, patterson) ==
    IF items = << >> THEN << >>
    ELSE LET it == Head(items)
         IN  <<<<well, rep.id, rep.date, IF it.hasCode THEN it.code ELSE "",
                 IF it.hasDetails THEN it.text ELSE "">>>>
             \o ActivityRows_EveryItem(well, rep, Tail(items), patterson)

\* the activity rows a branch appends to MR_Report_Comments: Patterson keeps
\* a row with details (code '' when missing), the others a row with a code;
\* a coded row without text raises KeyError and ends the loop, the tuples
\* appended before it stay
RECURSIVE ActivityRows(_, _, _, _)
ActivityRows(well, rep, items, patterson) ==
    IF items = << >> THEN << >>
    ELSE LET it == Head(items)
             rest == ActivityRows(well, rep, Tail(items), patterson)
         IN  IF patterson
             THEN IF it.hasDetails
                  THEN <<<<well, rep.id, rep.date, IF it.hasCode THEN it.code ELSE "", it.text>>>> \o rest
                  ELSE rest
             ELSE IF it.hasCode
                  THEN IF it.hasDetails
                       THEN <<<<well, rep.id, rep.date, it.code, it.text>>>> \o rest
                       ELSE << >>
                  ELSE rest

\* rep['DescriptionOfWork'] and the like raise KeyError on a coded row
\* without text
RowsRaise(p) ==
    /\ Dispatch(p) # 0 /\ MarkerOrder[Dispatch(p)] # "PattersonMorningReportRevB"
    /\ \E i \in DOMAIN p.items : p.items[i].hasCode /\ ~p.items[i].hasDetails

\* the report fields a branch sets from the payload
Extract(p, l) ==
    [l EXCEPT !.reportDate = p.date, !.comment = p.ops,
              !.comment24 = Comment24(p, @), !.reportID = p.reportID]

\* SpecReport: the payloads the dispatch is tried on: every schema key, every
\* set of marker names occurring elsewhere in the payload
Markers == {MarkerOrder[i] : i \in DOMAIN MarkerOrder}
ItemKinds ==
    {[Item(c, d) EXCEPT !.code = k] : c \in BOOLEAN, d \in BOOLEAN, k \in {"c", "c2"}}
SampleEntry == [id |-> "r1", date |-> "d1"]
\* a tuple an earlier job left in MR_Report_Comments
EarlierRows == <<<<"j0", "r0", "d0", "c", "d">>>>

ReportIdle == rp = [state |-> "idle"]

ReportInit ==
    \E key \in Markers \cup {"OtherReport"}, mentions \in SUBSET Markers,
       next24 \in BOOLEAN, n \in 0..MaxItems, before \in {<< >>, EarlierRows} :
        \E items \in [1..n -> ItemKinds] :
            rp = [state |-> "fetched", p |-> Report(key, mentions, next24, items),
                  branch |-> 0, raised |-> FALSE, loc |-> DefaultLocals,
                  processed |-> << >>, rows |-> before, before |-> before]

\* lines 713-792 on a fetched payload for job j1
DispatchReport ==
    /\ rp.state = "fetched"
    /\ LET p == rp.p
           raised == ExtractRaises(p) \/ Next24Raises(p) \/ RowsRaise(p)
       IN  rp' = [rp EXCEPT
                    !.state = "dispatched",
                    !.branch = Dispatch(p),
                    !.raised = raised,
                    !.loc = IF Dispatch(p) = 0 \/ ExtractRaises(p) \/ Next24Raises(p)
                            THEN @ ELSE Extract(p, @),
                    !.processed = IF Dispatch(p) = 0 THEN <<<<"j1", p>>>> ELSE @,
                    !.rows = IF Dispatch(p) = 0 \/ ExtractRaises(p) \/ Next24Raises(p)
                             THEN @
                             ELSE @ \o ActivityRows("j1", SampleEntry, p.items,
                                      MarkerOrder[Dispatch(p)] = "PattersonMorningReportRevB")]
    /\ UNCHANGED <<mainVars, hc, cl, dc, sel, tm, pg, ht, runs>>

----------------------------------------------------------------------------
(* The row, RAEAutomation.py lines 795-831 (and 346-381, 397-432) *)

Digit(k) == <<"0", "1", "2", "3", "4", "5", "6", "7", "8", "9">>[k + 1]
RECURSIVE NatStr(_)
NatStr(k) == IF k < 10 THEN Digit(k) ELSE NatStr(k \div 10) \o Digit(k % 10)
IntStr(k) == IF k < 0 THEN "-" \o NatStr(-k) ELSE NatStr(k)

\* str(x) of a Python value
Str(x) ==
    CASE x.t = "str" -> x.s
      [] x.t = "int" -> IntStr(x.n)
      [] x.t = "float" -> IntStr(x.n) \o ".0"
      [] x.t = "bool" -> IF x.n = 1 THEN "True" ELSE "False"
      [] x.t = "null" -> "None"

\* the row with the commented-out reportStatus appended as well
MakeRow_WithStatus(job, l) ==
    <<job.owner, job.name, job.siteOwner, job.jobName,
      Str(l.Iadc_Rig_val), Str(l.Iadc2_Rig_val), Str(l.Iadc3_Rig_val),
      l.HookLoadbool, l.PumpPressurebool, l.BlockHeightbool, l.PumpSpmbool,
      l.PumpSpm2bool, l.PumpSpm3bool, l.RotaryTorquebool, l.tpDriveRPM,
      l.tpDriveTorq, l.weightonBit, l.RP_Fast, l.tHookLoad, l.BitPositionbool,
      Str(l.BitStatusbool), Str(l.SlipStatusbool),
      l.comment, l.comment24, l.reportID, l.reportDate, "">>

\* the column names of the sheet 'RAE Report', lines 845-846
header ==
    <<"Contractor", "Rig Number", "Operator", "Well name", "IADC", "IADC 2", "IADC3",
      "HookLoad", "PumpPressure", "BlockHeight", "PumpSpm", "PumpSpm2", "PumpSpm3",
      "RotaryTorque", "TopDrive RPM", "TopDrive Torque", "WOB", "ROP-F", "T-HL",
      "BitPosition", "BitStatus", "SlipStatus", "Comments", "Next 24 Hr Comments",
      "Report Id", "Report Date">>

MakeRow(job, l) ==
    <<job.owner, job.name, job.siteOwner, job.jobName,
      Str(l.Iadc_Rig_val), Str(l.Iadc2_Rig_val), Str(l.Iadc3_Rig_val),
      l.HookLoadbool, l.PumpPressurebool, l.BlockHeightbool, l.PumpSpmbool,
      l.PumpSpm2bool, l.PumpSpm3bool, l.RotaryTorquebool, l.tpDriveRPM,
      l.tpDriveTorq, l.weightonBit, l.RP_Fast, l.tHookLoad, l.BitPositionbool,
      Str(l.BitStatusbool), Str(l.SlipStatusbool),
      l.comment, l.comment24, l.reportID, l.reportDate>>

----------------------------------------------------------------------------
(* main(), RAEAutomation.py lines 71-923 *)

MainInit ==
    /\ pc = "token" /\ token = "unset" /\ tokLog = << >> /\ tokWaits = << >>
    /\ tmpAllJobs = << >> /\ idx = 0 /\ loc = DefaultLocals /\ attsLst = << >>
    /\ r = << >> /\ RAEJobs = << >> /\ ZeroReportList = << >>
    /\ processedJobList = << >> /\ MR_Report_Comments = << >> /\ wellList = << >>
    /\ calls = << >> /\ jobLog = << >> /\ written = FALSE /\ emails = 0
    /\ lookup_table = << >> /\ tmpJobs = << >>
    /\ q = << >> /\ hist = HistNone /\ attribute_mapping = << >> /\ report = ""

well == tmpAllJobs[idx].id

NewLog(id) == [id |-> id, attrs |-> "-", path |-> "-", outcome |-> "pending", row |-> 0]
Called(fn) == calls' = Append(calls, <<fn, idx>>)
\* the loop without the test `well in ZeroReportList`
InZero_Never(id) == FALSE

InZero(id) == \E i \in DOMAIN ZeroReportList : ZeroReportList[i] = id

\* getToken raising on a status other than 200 instead of leaving the process
getToken_RaiseOnStatus(o, k) ==
    IF o.exc \/ ~o.json \/ o.status # 200
    THEN IF k >= StopAfterAttempt THEN "callback" ELSE "retry"
    ELSE "return"

\* getToken (welldataAPI.py 323-349) under tenacity, attempt number k with
\* outcome o: a status other than 200 ends the process in os._exit(1); an
\* exception (transport, r.json(), values['token']) is retried after
\* WaitFixed seconds until attempt StopAfterAttempt raised, and then the
\* callback's None is returned.
getToken(o, k) ==
    IF o.exc \/ (o.status = 200 /\ ~o.json)
    THEN IF k >= StopAfterAttempt THEN "callback" ELSE "retry"
    ELSE IF o.status # 200 THEN "os._exit" ELSE "return"

\* line 123: one attempt of getToken
GetToken ==
    /\ pc = "token"
    /\ \E o \in TokenOutcomes :
        LET what == getToken(o, Len(tokLog) + 1)
        IN  /\ tokLog' = Append(tokLog, o)
            /\ tokWaits' = IF what = "retry" THEN Append(tokWaits, WaitFixed) ELSE tokWaits
            /\ token' = CASE what = "return" -> "tok"
                          [] what = "callback" -> None
                          [] OTHER -> token
            /\ pc' = CASE what = "retry" -> "token"
                       [] what = "os._exit" -> "exited"
                       [] OTHER -> "listing"
    /\ UNCHANGED <<tmpAllJobs, idx, loc, attsLst, r, RAEJobs, ZeroReportList,
                   processedJobList, MR_Report_Comments, wellList, calls, jobLog,
                   written, emails, discVars, fetched, hc, cl, dc, rp, sel, tm, pg, ht, runs>>

\* lines 175-203: the listing, the lookup table and the filtered ids, then
\* the first iteration of `for w in tmpAllJobs` (or none)
ListJobs ==
    /\ pc = "listing"
    /\ \E o1 \in RunOutcomes, o2 \in RunOutcomes, jobs \in JobLists :
        LET res == getJobsList(1000, o1, o2, jobs)
        IN  /\ tmpAllJobs' = res.result
            /\ lookup_table' = BuildLookup(res.result, << >>)
            /\ tmpJobs' = FilterJobs(RAE_Rigs, lookup_table')
            /\ IF Len(res.result) = 0
               THEN pc' = "write" /\ idx' = idx /\ jobLog' = jobLog
               ELSE pc' = "cap" /\ idx' = 1 /\ jobLog' = <<NewLog(res.result[1].id)>>
    /\ Called("getJobs")
    /\ UNCHANGED <<token, tokLog, tokWaits, loc, attsLst, r, RAEJobs, ZeroReportList,
                   processedJobList, MR_Report_Comments, wellList, written, emails,
                   fetched, hc, cl, dc, rp, sel, tm, pg, ht, runs>>

\* the next iteration of `for w in tmpAllJobs` (locals reset, lines 203-251),
\* or the end of the loop
Advance(log) ==
    IF idx < Len(tmpAllJobs)
    THEN /\ idx' = idx + 1 /\ pc' = "cap" /\ loc' = DefaultLocals /\ attsLst' = << >>
         /\ jobLog' = Append(log, NewLog(tmpAllJobs[idx + 1].id))
    ELSE /\ idx' = idx /\ pc' = "write" /\ loc' = loc /\ attsLst' = attsLst
         /\ jobLog' = log

\* lines 835-841: an exception of the loop body ends the loop
Raise ==
    /\ pc' = "write"
    /\ wellList' = Append(wellList, well)
    /\ jobLog' = [jobLog EXCEPT ![idx].outcome = "exception"]

\* lines 256-259: the capability call; realTime is set and never read
StepCapabilities ==
    /\ pc = "cap"
    /\ \E o1 \in RunOutcomes, o2 \in RunOutcomes :
        LET res == getApiCall(o1, o2, "Supported") IN Len(res.result) \in {0, 1}
    /\ Called("getJobsIdCapabilities")
    /\ pc' = "attrs"
    /\ UNCHANGED <<token, tokLog, tokWaits, tmpAllJobs, idx, loc, attsLst, r, RAEJobs,
                   ZeroReportList, processedJobList, MR_Report_Comments, wellList,
                   jobLog, written, emails, discVars, fetched, hc, cl, dc, rp, sel, tm, pg, ht, runs>>

\* a loop body that asks for the reports right after the selection
AfterSelection_ReportsFirst(n) == IF n = 0 THEN "jobrow" ELSE "reports"

\* `if len(attsLst) == 0:` at 344 goes to the row at once; otherwise the
\* telemetry call at 389 is next
AfterSelection(n) == IF n = 0 THEN "jobrow" ELSE "hist"

\* lines 263-344: the attribute call, q[0] (IndexError on an empty result),
\* the selection, and the branch on an empty selection
StepAttributes ==
    /\ pc = "attrs"
    /\ Called("getAttributes")
    /\ \E o1 \in RunOutcomes, o2 \in RunOutcomes, attrs \in AttrPayloads :
        LET res == getApiCall(o1, o2, attrs)
        IN  /\ q' = res.result
            /\ IF Len(res.result) = 0
               THEN /\ jobLog' = [jobLog EXCEPT ![idx].attrs = "empty", ![idx].outcome = "exception"]
                    /\ pc' = "write" /\ wellList' = Append(wellList, well)
                    /\ attsLst' = attsLst
               ELSE /\ attsLst' = SelectAttributes(res.result[1])
                    /\ wellList' = wellList
                    /\ pc' = AfterSelection(Len(attsLst'))
                    /\ IF Len(attsLst') = 0
                       THEN jobLog' = [jobLog EXCEPT ![idx].attrs = "ok", ![idx].path = "emptySelection"]
                       ELSE jobLog' = [jobLog EXCEPT ![idx].attrs = "ok"]
    /\ UNCHANGED <<token, tokLog, tokWaits, tmpAllJobs, idx, loc, r, RAEJobs,
                   ZeroReportList, processedJobList, MR_Report_Comments,
                   written, emails, discVars, hist, attribute_mapping, report,
                   hc, cl, dc, rp, sel, tm, pg, ht, runs>>

\* lines 384-686: the telemetry call, the empty-telemetry branch, the
\* mapping of the first time record and the classification
StepTelemetry ==
    /\ pc = "hist"
    /\ Called("historical_data_time")
    /\ \E os \in [1..StopAfterAttemptHist -> RunOutcomes], payload \in HistPayloads :
        LET h == historical_data_time(os, payload).result
        IN  /\ hist' = h
            /\ IF h.kind # "data"
               THEN Raise /\ loc' = loc /\ attribute_mapping' = << >>
               ELSE IF Len(h.timeRecords) = 0
               THEN /\ pc' = "jobrow" /\ loc' = loc /\ wellList' = wellList
                    /\ attribute_mapping' = << >>
                    /\ jobLog' = [jobLog EXCEPT ![idx].path = "emptyTelemetry"]
               ELSE IF MappingRaises(h)
               THEN \* the entries before the short position are already assigned
                    /\ Raise /\ loc' = loc
                    /\ attribute_mapping' =
                           AttributeMapping(Hist(SubSeq(h.attributes, 1, Len(h.timeRecords[1])),
                                                 h.timeRecords))
               ELSE /\ pc' = "reports" /\ wellList' = wellList
                    /\ attribute_mapping' = AttributeMapping(h)
                    /\ loc' = Classify(attribute_mapping', loc)
                    /\ jobLog' = [jobLog EXCEPT ![idx].path = "full"]
    /\ UNCHANGED <<token, tokLog, tokWaits, tmpAllJobs, idx, attsLst, r, RAEJobs,
                   ZeroReportList, processedJobList, MR_Report_Comments,
                   written, emails, discVars, q, report, hc, cl, dc, rp, sel, tm, pg, ht, runs>>

\* lines 693-703: the report listing and the zero-report branches
StepReportList ==
    /\ pc = "reports"
    /\ Called("getReports")
    /\ \E o1 \in RunOutcomes, o2 \in RunOutcomes, available \in ReportLists :
        LET res == getReportsList(o1, o2, available)
        IN  /\ r' = res.result
            /\ IF InZero(well)
               THEN /\ Advance([jobLog EXCEPT ![idx].outcome = "skippedZeroReport"])
                    /\ ZeroReportList' = ZeroReportList
               ELSE IF Len(res.result) = 0
               THEN /\ ZeroReportList' = Append(ZeroReportList, well)
                    /\ loc' = [loc EXCEPT !.comment = "no morning report"]
                    /\ pc' = "jobrow"
                    /\ jobLog' = [jobLog EXCEPT ![idx].path = "noReport"]
                    /\ UNCHANGED <<idx, attsLst>>
               ELSE /\ pc' = "content"
                    /\ UNCHANGED <<idx, attsLst, jobLog, loc, ZeroReportList>>
    /\ UNCHANGED <<token, tokLog, tokWaits, tmpAllJobs, RAEJobs, processedJobList,
                   MR_Report_Comments, wellList, written, emails, discVars, fetched,
                   hc, cl, dc, rp, sel, tm, pg, ht, runs>>

\* lines 708-792: the report content, the empty-content branch, the dispatch
\* on the marker and the extraction
StepReportContent ==
    /\ pc = "content"
    /\ Called("getReportsFileFormat")
    /\ \E o1 \in RunOutcomes, o2 \in RunOutcomes, payload \in ReportPayloads :
        LET res == getReportsContent(o1, o2, payload)
        IN  /\ report' = res.result
            /\ IF Len(res.result) = 0
               THEN \* no marker in str([]): the else branch reads report[0]
                    /\ ZeroReportList' = Append(ZeroReportList, well)
                    /\ Raise
                    /\ loc' = [loc EXCEPT !.comment = "no morning report"]
                    /\ UNCHANGED <<idx, attsLst, processedJobList, MR_Report_Comments>>
               ELSE LET p == res.result[1]
                    IN  IF Dispatch(p) = 0
                        THEN /\ processedJobList' = Append(processedJobList, <<well, p>>)
                             /\ Advance([jobLog EXCEPT ![idx].outcome = "skippedUnrecognized"])
                             /\ UNCHANGED <<ZeroReportList, MR_Report_Comments, wellList>>
                        ELSE IF ExtractRaises(p) \/ Next24Raises(p)
                        THEN /\ Raise
                             /\ UNCHANGED <<idx, attsLst, loc, ZeroReportList, processedJobList,
                                            MR_Report_Comments>>
                        ELSE IF RowsRaise(p)
                        THEN /\ Raise
                             /\ loc' = Extract(p, loc)
                             /\ MR_Report_Comments' = MR_Report_Comments \o
                                    ActivityRows(well, r[1], p.items, FALSE)
                             /\ UNCHANGED <<idx, attsLst, ZeroReportList, processedJobList>>
                        ELSE /\ loc' = Extract(p, loc)
                             /\ MR_Report_Comments' = MR_Report_Comments \o
                                    ActivityRows(well, r[1], p.items,
                                        MarkerOrder[Dispatch(p)] = "PattersonMorningReportRevB")
                             /\ pc' = "jobrow"
                             /\ UNCHANGED <<idx, attsLst, jobLog, ZeroReportList, processedJobList,
                                            wellList>>
    /\ UNCHANGED <<token, tokLog, tokWaits, tmpAllJobs, r, RAEJobs, written, emails,
                   discVars, q, hist, attribute_mapping, hc, cl, dc, rp, sel, tm, pg, ht, runs>>

\* lines 346-382, 397-433, 796-831: the job is read by id, job[0] (IndexError
\* on an empty result), the row is appended
StepRow ==
    /\ pc = "jobrow"
    /\ Called("getJobsId")
    /\ \E o1 \in RunOutcomes, o2 \in RunOutcomes :
        LET res == getJobsById(o1, o2, JobInfo(well))
        IN  IF Len(res.result) = 0
            THEN Raise /\ UNCHANGED <<idx, loc, attsLst, RAEJobs>>
            ELSE /\ RAEJobs' = Append(RAEJobs, MakeRow(res.result[1], loc))
                 /\ Advance([jobLog EXCEPT ![idx].outcome = "row", ![idx].row = Len(RAEJobs) + 1])
                 /\ wellList' = wellList
    /\ UNCHANGED <<token, tokLog, tokWaits, tmpAllJobs, r, ZeroReportList,
                   processedJobList, MR_Report_Comments, written, emails, discVars,
                   fetched, hc, cl, dc, rp, sel, tm, pg, ht, runs>>

\* lines 844-912: the workbook.  pd.DataFrame(x).sort_values(by=df.columns[0])
\* raises IndexError for an empty RAEJobs (line 852) and for an empty
\* MR_Report_Comments (line 861): an empty frame has no column 0.
WriteWorkbook ==
    /\ pc = "write"
    /\ IF Len(RAEJobs) = 0 \/ Len(MR_Report_Comments) = 0
       THEN pc' = "crashed" /\ written' = written
       ELSE pc' = "email" /\ written' = TRUE
    /\ UNCHANGED <<token, tokLog, tokWaits, tmpAllJobs, idx, loc, attsLst, r, RAEJobs,
                   ZeroReportList, processedJobList, MR_Report_Comments, wellList,
                   calls, jobLog, emails, discVars, fetched, hc, cl, dc, rp, sel, tm, pg, ht, runs>>

\* lines 915-923: the email, then quit()
SendEmail ==
    /\ pc = "email"
    /\ emails' = emails + 1
    /\ pc' = "done"
    /\ UNCHANGED <<token, tokLog, tokWaits, tmpAllJobs, idx, loc, attsLst, r, RAEJobs,
                   ZeroReportList, processedJobList, MR_Report_Comments, wellList,
                   calls, jobLog, written, discVars, fetched, hc, cl, dc, rp, sel, tm, pg, ht, runs>>

----------------------------------------------------------------------------
(* Launches of the script, RAEAutomation.py lines 71-123 and 922-931: run  *)
(* as a script, the module calls main() at once and main ends the process  *)
(* with quit(), so the `while True: schedule.run_pending()` loop is not    *)
(* reached; a later run is another launch of the script, another process.  *)

Procs == 1..MaxProcs
Stages == <<"token", "jobs", "loop", "workbook", "email">>
StageOf(st) == CHOOSE i \in DOMAIN Stages : Stages[i] = st

\* a start that first takes a lock no other run may hold
CanStart_Lock(rs, p) ==
    rs[p] = "notStarted" /\ \A o \in DOMAIN rs : rs[o] \in {"notStarted", "exited"}

\* `if __name__ == "__main__": main()`: main reads the configuration and asks
\* for the token; it tests no lock file, process list or other run's state
CanStart(rs, p) == rs[p] = "notStarted"

RunsIdle == runs = << >>
RunsInit == runs = [p \in Procs |-> "notStarted"]

Launch(p) ==
    /\ CanStart(runs, p)
    /\ runs' = [runs EXCEPT ![p] = "token"]
    /\ UNCHANGED <<mainVars, hc, cl, dc, rp, sel, tm, pg, ht>>

\* main goes from one stage to the next
StepRun(p) ==
    /\ runs[p] \in {Stages[i] : i \in 1..(Len(Stages) - 1)}
    /\ runs' = [runs EXCEPT ![p] = Stages[StageOf(runs[p]) + 1]]
    /\ UNCHANGED <<mainVars, hc, cl, dc, rp, sel, tm, pg, ht>>

\* quit() at the end of main; an exception of getToken or of the workbook
\* write ends the process earlier
Quit(p) ==
    /\ runs[p] \in {"token", "workbook", "email"}
    /\ runs' = [runs EXCEPT ![p] = "exited"]
    /\ UNCHANGED <<mainVars, hc, cl, dc, rp, sel, tm, pg, ht>>

----------------------------------------------------------------------------
Init == MainInit /\ HttpIdle /\ ClassifyIdle /\ DiscIdle /\ ReportIdle
            /\ SelectIdle /\ TelemetryIdle /\ PagesIdle /\ HistIdle /\ RunsIdle

Next ==
    \/ GetToken
    \/ ListJobs
    \/ StepCapabilities
    \/ StepAttributes
    \/ StepTelemetry
    \/ StepReportList
    \/ StepReportContent
    \/ StepRow
    \/ WriteWorkbook
    \/ SendEmail

Spec == Init /\ [][Next]_vars

InitHttp == MainInit /\ HttpInit /\ ClassifyIdle /\ DiscIdle /\ ReportIdle
            /\ SelectIdle /\ TelemetryIdle /\ PagesIdle /\ HistIdle /\ RunsIdle
NextHttp == CallGetApiCall \/ CallGetJobs \/ CallGetReports
SpecHttp == InitHttp /\ [][NextHttp]_vars

InitClassify == MainInit /\ HttpIdle /\ ClassifyInit /\ DiscIdle /\ ReportIdle
            /\ SelectIdle /\ TelemetryIdle /\ PagesIdle /\ HistIdle /\ RunsIdle
NextClassify == ClassifyStep
SpecClassify == InitClassify /\ [][NextClassify]_vars

InitDiscovery == MainInit /\ HttpIdle /\ ClassifyIdle /\ DiscInit /\ ReportIdle
            /\ SelectIdle /\ TelemetryIdle /\ PagesIdle /\ HistIdle /\ RunsIdle
NextDiscovery == Discover
SpecDiscovery == InitDiscovery /\ [][NextDiscovery]_vars

InitReport == MainInit /\ HttpIdle /\ ClassifyIdle /\ DiscIdle /\ ReportInit
            /\ SelectIdle /\ TelemetryIdle /\ PagesIdle /\ HistIdle /\ RunsIdle
NextReport == DispatchReport
SpecReport == InitReport /\ [][NextReport]_vars

InitSelect == MainInit /\ HttpIdle /\ ClassifyIdle /\ DiscIdle /\ ReportIdle
            /\ SelectInit /\ TelemetryIdle /\ PagesIdle /\ HistIdle /\ RunsIdle
NextSelect == Select
SpecSelect == InitSelect /\ [][NextSelect]_vars

InitTelemetry == MainInit /\ HttpIdle /\ ClassifyIdle /\ DiscIdle /\ ReportIdle
            /\ SelectIdle /\ TelemetryInit /\ PagesIdle /\ HistIdle /\ RunsIdle
NextTelemetry == MapAndClassify
SpecTelemetry == InitTelemetry /\ [][NextTelemetry]_vars

InitPages == MainInit /\ HttpIdle /\ ClassifyIdle /\ DiscIdle /\ ReportIdle
            /\ SelectIdle /\ TelemetryIdle /\ PagesInit /\ HistIdle /\ RunsIdle
NextPages == CallGetJobsPaged
SpecPages == InitPages /\ [][NextPages]_vars

InitHist == MainInit /\ HttpIdle /\ ClassifyIdle /\ DiscIdle /\ ReportIdle
            /\ SelectIdle /\ TelemetryIdle /\ PagesIdle /\ HistInit /\ RunsIdle
NextHist == CallHistorical
SpecHist == InitHist /\ [][NextHist]_vars

InitRuns == MainInit /\ HttpIdle /\ ClassifyIdle /\ DiscIdle /\ ReportIdle
            /\ SelectIdle /\ TelemetryIdle /\ PagesIdle /\ HistIdle /\ RunsInit
NextRuns == \E p \in Procs : Launch(p) \/ StepRun(p) \/ Quit(p)
SpecRuns == InitRuns /\ [][NextRuns]_vars

----------------------------------------------------------------------------
(* Properties *)

LoopOver == pc \in {"write", "email", "done", "crashed"}
Ended == pc \in {"done", "crashed"}

\* the 13 numeric statuses, BitStatus and SlipStatus of a row
RowStatuses(row) == SubSeq(row, 8, 22)
DefaultStatuses == <<0, 0, 0, 0, 0, 0, 0, 0, 0, 0, 0, 0, 0, "0", "0">>

Escaped == {j \in DOMAIN jobLog : jobLog[j].outcome = "exception"}

\* C1: a job whose attribute fetch returned no result still gets a row with
\* default statuses, and every job after it is processed; the run is not
\* aborted.
C1_Claim ==
    \A j \in DOMAIN jobLog :
        jobLog[j].attrs = "empty" =>
            /\ jobLog[j].outcome # "exception"
            /\ LoopOver =>
                /\ jobLog[j].row # 0
                /\ RowStatuses(RAEJobs[jobLog[j].row]) = DefaultStatuses
                /\ Len(jobLog) = Len(tmpAllJobs)
                /\ \A k \in DOMAIN jobLog : k > j => jobLog[k].outcome # "pending"

\* C2: after an exception escaped the processing of job i no call is issued
\* and no row appended for a later job, the rows appended before are kept,
\* and the run ends with the workbook written and the email sent.
C2_Claim ==
    \A i \in Escaped :
        /\ \A c \in DOMAIN calls : calls[c][2] <= i
        /\ Len(jobLog) = i
        /\ \A k \in DOMAIN RAEJobs : \E j \in 1..(i - 1) : jobLog[j].row = k
        /\ Cardinality({j \in 1..(i - 1) : jobLog[j].outcome = "row"}) = Len(RAEJobs)
        /\ Ended => (written /\ emails > 0)

\* C3: when no exception escaped the loop, the row list holds exactly one
\* row for each iterated job.
C3_Claim ==
    (LoopOver /\ wellList = << >>) =>
        /\ Len(RAEJobs) = Len(tmpAllJobs)
        /\ \A j \in DOMAIN jobLog : jobLog[j].outcome = "row" /\ jobLog[j].row = j

NonOk(o) == ~o.exc /\ o.status # 200

\* C4: a token response with a status other than 200 ends the process inside
\* getToken: it is the last attempt, and no listing, per-job call, row,
\* workbook or email exists.
C4_TokenFailureIsFatal ==
    \A i \in DOMAIN tokLog :
        NonOk(tokLog[i]) =>
            /\ i = Len(tokLog)
            /\ pc = "exited"
            /\ token = "unset"
            /\ calls = << >> /\ tmpAllJobs = << >> /\ RAEJobs = << >>
            /\ ~written /\ emails = 0

\* a 500 from the token endpoint after two attempts that raised
C4_Witness ==
    /\ pc = "exited" /\ Len(tokLog) = 3
    /\ tokLog[1].exc /\ tokLog[2].exc /\ tokLog[3] = Resp(500)

\* C5: getToken is attempted at most 4 times, 2 s apart, and when all
\* attempts failed the run does not continue with a missing token.
C5_Claim ==
    /\ Len(tokLog) <= 4
    /\ \A i \in DOMAIN tokWaits : tokWaits[i] = 2
    /\ pc \notin {"token", "exited"} => token # None

Returned(fn) == hc.state = "returned" /\ hc.fn = fn

\* C6: a first response of getApiCall that is not 200 is followed by a wait
\* of 20 s and exactly one more request; a second non-200 response (or a
\* failing second request) gives an empty result without raising.  An
\* invocation makes at most two requests and returns 0 or 1 element.
C6_RetryOnce ==
    Returned("getApiCall") =>
        /\ hc.res.requests \in {1, 2}
        /\ Len(hc.res.result) \in {0, 1}
        /\ ~hc.res.raised
        /\ NonOk(hc.o1) =>
            /\ hc.res.requests = 2
            /\ hc.res.sleeps = <<20>>
            /\ (hc.o2.exc \/ hc.o2.status # 200) => Len(hc.res.result) = 0

\* a 302 answered by a 503 on the retry
C6_Witness ==
    /\ Returned("getApiCall") /\ hc.o1 = Resp(302) /\ hc.o2 = Resp(503)
    /\ hc.res.requests = 2 /\ hc.res.result = << >>

\* C7: when the first request of a wrapper raises, the request is made a
\* second time before the wrapper returns.
C7_Claim ==
    (hc.state = "returned" /\ hc.o1.exc) => hc.res.requests = 2

Transient(code) == code \in 500..599 \/ code \in 400..409

\* C8: 200 is success, a transient status is retried once, any other status
\* is not retried.
C8_Claim ==
    (hc.state = "returned" /\ ~hc.o1.exc) =>
        /\ (hc.o1.status = 200 /\ hc.o1.json) => (hc.res.requests = 1 /\ Len(hc.res.result) > 0)
        /\ Transient(hc.o1.status) => hc.res.requests = 2
        /\ (hc.o1.status # 200 /\ ~Transient(hc.o1.status)) => hc.res.requests = 1

IsNumber(v) == v.t \in {"int", "float", "bool"}

\* C9: each numeric channel in the snapshot is OK iff its value is a number
\* above 0, WARN iff the value is 0, MISSING otherwise, for integers and
\* floating-point values alike.
C9_Claim ==
    cl.state = "classified" =>
        \A key \in NumericKeys \cap DOMAIN cl.m :
            cl.out[LocalOf(key)] =
                IF IsNumber(cl.m[key]) /\ cl.m[key].n > 0 THEN emoji_check
                ELSE IF IsNumber(cl.m[key]) /\ cl.m[key].n = 0 THEN emoji_exclamation
                ELSE emoji_x

\* C10: BitStatus 0 gives "On", 1 gives "Off", anything else MISSING;
\* SlipStatus 0 gives "Resetting", 1 "in", 2 "out", anything else MISSING;
\* every snapshot value is classified.
C10_EnumTotal ==
    cl.state = "classified" =>
        /\ "BitStatus" \in DOMAIN cl.m =>
            LET v == cl.m["BitStatus"]
            IN  cl.out.BitStatusbool =
                    IF IsNumber(v) /\ v.n = 0 THEN StStr("On")
                    ELSE IF IsNumber(v) /\ v.n = 1 THEN StStr("Off")
                    ELSE StInt(0)
        /\ "SlipStatus" \in DOMAIN cl.m =>
            LET v == cl.m["SlipStatus"]
            IN  cl.out.SlipStatusbool =
                    IF IsNumber(v) /\ v.n = 0 THEN StStr("Resetting")
                    ELSE IF IsNumber(v) /\ v.n = 1 THEN StStr("in")
                    ELSE IF IsNumber(v) /\ v.n = 2 THEN StStr("out")
                    ELSE StInt(0)
        /\ Str(cl.out.BitStatusbool) \in {"On", "Off", "0"}
        /\ Str(cl.out.SlipStatusbool) \in {"Resetting", "in", "out", "0"}

\* SlipStatus 2 and a null BitStatus in one snapshot
C10_Witness ==
    /\ cl.state = "classified"
    /\ DOMAIN cl.m = {"BitStatus", "SlipStatus"}
    /\ cl.m["SlipStatus"] = PyInt(2) /\ cl.out.SlipStatusbool = StStr("out")
    /\ cl.m["BitStatus"] = PyNull /\ cl.out.BitStatusbool = StInt(0)

\* the attributes a selection has to pick, and the place of the i-th of them
Picked(attrs) == {i \in DOMAIN attrs : attrs[i].hasData /\ attrs[i].mnemonic \in Mnemonics}
Rank(S, i) == Cardinality({j \in S : j <= i})

\* C11: an attribute is selected iff hasData is true and its mnemonic is one
\* of the 18 fixed mnemonics; each selected attribute gives exactly one entry
\* with mode "Last", in the order of the attributes, and none gives two.
C11_Selection ==
    sel.state = "selected" =>
        LET S == Picked(sel.attrs)
        IN  /\ Len(sel.attsLst) = Cardinality(S)
            /\ \A i \in S :
                sel.attsLst[Rank(S, i)] = [id |-> sel.attrs[i].id, mode |-> "Last"]

\* an attribute without data before one with data: only the second is kept
C11_Witness ==
    /\ sel.state = "selected"
    /\ sel.attrs = <<Attr("a2", "WOB", FALSE), Attr("a1", "Trigger Hkld", TRUE)>>
    /\ sel.attsLst = <<[id |-> "a1", mode |-> "Last"]>>

\* the calls made for the job at position j of the listing
CallsOf(j) == {calls[c][1] : c \in {d \in DOMAIN calls : calls[d][2] = j}}
\* the job at position j is over: the loop went on or ended
JobOver(j) == j < Len(jobLog) \/ LoopOver
\* the report fields of a row
RowReport(row) == SubSeq(row, 23, 26)
DefaultReport == <<"NA", "NA", "", "">>

\* C12: a job with an empty channel selection gets a row with every status
\* and every report field at its default, no telemetry and no report request
\* is made for it, and the next job is processed.
C12_Claim ==
    \A j \in DOMAIN jobLog :
        jobLog[j].path = "emptySelection" =>
            /\ jobLog[j].outcome # "exception"
            /\ CallsOf(j) \cap {"historical_data_time", "getReports", "getReportsFileFormat"} = {}
            /\ JobOver(j) =>
                /\ jobLog[j].row # 0
                /\ RowStatuses(RAEJobs[jobLog[j].row]) = DefaultStatuses
                /\ RowReport(RAEJobs[jobLog[j].row]) = DefaultReport
                /\ j < Len(tmpAllJobs) => Len(jobLog) > j

\* C13: a job whose telemetry response has no time record gets a row with
\* every status at its default, no classification and no report request is
\* made for it, and the next job is processed.
C13_Claim ==
    \A j \in DOMAIN jobLog :
        jobLog[j].path = "emptyTelemetry" =>
            /\ jobLog[j].outcome # "exception"
            /\ CallsOf(j) \cap {"getReports", "getReportsFileFormat"} = {}
            /\ JobOver(j) =>
                /\ jobLog[j].row # 0
                /\ RowStatuses(RAEJobs[jobLog[j].row]) = DefaultStatuses
                /\ j < Len(tmpAllJobs) => Len(jobLog) > j

\* the job whose row was appended last, while its responses are still held
LastRowJob ==
    IF pc = "cap" /\ idx > 1 /\ jobLog[idx - 1].outcome = "row" THEN idx - 1
    ELSE IF LoopOver /\ idx > 0 /\ jobLog[idx].outcome = "row" THEN idx
    ELSE 0

\* C14: attributes [{HOOKLOAD_MAX, hasData, id a1}], snapshot {a1: 25000.0}
\* and a GenericAmericanMorningReportDW report of 2024-01-10 with
\* "Drilling ahead" give a row with HookLoad OK, that comment and that date.
C14_Claim ==
    (/\ LastRowJob # 0
     /\ q = <<<<Attr("a1", "HOOKLOAD_MAX", TRUE)>>>>
     /\ hist = Hist(<<"a1">>, <<<<PyFloat(25000)>>>>)
     /\ jobLog[LastRowJob].path = "full"
     /\ Len(report) = 1 /\ report[1].key = "GenericAmericanMorningReportDW") =>
        LET row == RAEJobs[jobLog[LastRowJob].row]
        IN  /\ row[8] = emoji_check
            /\ row[23] = "Drilling ahead"
            /\ row[26] = "2024-01-10"

\* the markers the serialized payload contains
Found(p) == {m \in Markers : m = p.key \/ m \in p.mentions}

\* C15: a payload containing exactly one marker is handled by that marker's
\* path; a payload containing none goes to the unrecognized list with the
\* payload, and the report fields stay at their defaults; one of the six
\* outcomes is chosen for every payload.
C15_Dispatch ==
    rp.state = "dispatched" =>
        /\ rp.branch \in 0..5
        /\ (rp.branch = 0) = (rp.processed # << >>)
        /\ \A m \in Markers :
            Found(rp.p) = {m} => (rp.branch # 0 /\ MarkerOrder[rp.branch] = m)
        /\ Found(rp.p) = {} =>
            /\ rp.branch = 0
            /\ rp.processed = <<<<"j1", rp.p>>>>
            /\ rp.loc = DefaultLocals /\ rp.rows = rp.before

\* a Patterson marker in the text of a report of another schema
C15_Witness ==
    /\ rp.state = "dispatched"
    /\ rp.p.key = "OtherReport" /\ rp.p.mentions = {"PattersonMorningReportRevB"}
    /\ rp.branch = 5 /\ rp.processed = << >>

Occurrences(seq, x) == Cardinality({i \in DOMAIN seq : seq[i] = x})

\* C16: when the report listing of a job is empty its comment is "no morning
\* report", and its id is in the zero-report list exactly once, also when the
\* same id is iterated again.
C16_ZeroReportOnce ==
    /\ \A id \in JobIds : Occurrences(ZeroReportList, id) <= 1
    /\ \A j \in DOMAIN jobLog :
        jobLog[j].path = "noReport" =>
            /\ Occurrences(ZeroReportList, jobLog[j].id) = 1
            /\ (j = idx /\ pc = "jobrow") => loc.comment = "no morning report"
            /\ jobLog[j].row # 0 => RAEJobs[jobLog[j].row][23] = "no morning report"

\* j1 twice in the listing, an empty report listing at the first encounter
C16_Witness ==
    /\ LoopOver /\ Len(tmpAllJobs) = 2 /\ Len(jobLog) = 2
    /\ jobLog[1].id = "j1" /\ jobLog[2].id = "j1"
    /\ jobLog[1].path = "noReport" /\ jobLog[1].row = 1
    /\ jobLog[2].outcome = "skippedZeroReport"
    /\ ZeroReportList = <<"j1">>

\* C17: once a job id is in the zero-report list, a later encounter of the
\* same id makes no report-listing request.
C17_Claim ==
    \A j, k \in DOMAIN jobLog :
        (j < k /\ jobLog[j].id = jobLog[k].id /\ jobLog[j].path = "noReport") =>
            "getReports" \notin CallsOf(k)

\* the ids the rig filter kept
Allowed == {tmpJobs[i] : i \in DOMAIN tmpJobs}

\* C18: a listed job whose lookup key contains no configured rig token gets
\* no per-job call and no row.
C18_Claim ==
    \A j \in DOMAIN jobLog :
        jobLog[j].id \notin Allowed => (CallsOf(j) = {} /\ jobLog[j].row = 0)

\* the (token, key) pairs that match, and the place of a pair in token-major order
Matches(rigs, d) ==
    {pr \in (DOMAIN rigs) \X (DOMAIN d) : Substring(rigs[pr[1]], d[pr[2]][1])}
Place(M, pr) ==
    Cardinality({o \in M : o[1] < pr[1] \/ (o[1] = pr[1] /\ o[2] <= pr[2])})

\* C19: the filtered list holds, for every rig token in configuration order
\* and every lookup key in lookup order that contains it, the id stored under
\* the key: once per matching token, not deduplicated, and nothing else.
C19_Filter ==
    dc.state = "filtered" =>
        LET M == Matches(dc.rigs, dc.lookup_table)
        IN  /\ Len(dc.tmpJobs) = Cardinality(M)
            /\ \A pr \in M : dc.tmpJobs[Place(M, pr)] = dc.lookup_table[pr[2]][2]
            /\ \A i \in DOMAIN dc.jobs :
                \E k \in DOMAIN dc.lookup_table : dc.lookup_table[k][1] = JobKey(dc.jobs[i])
            /\ \A k \in DOMAIN dc.lookup_table :
                \E i \in DOMAIN dc.jobs :
                    /\ dc.lookup_table[k] = <<JobKey(dc.jobs[i]), dc.jobs[i].id>>
                    /\ \A i2 \in DOMAIN dc.jobs : JobKey(dc.jobs[i2]) = JobKey(dc.jobs[i]) => i2 <= i

\* key "P 12" matches both tokens and key "P 2" one: j1 is kept twice
C19_Witness ==
    /\ dc.state = "filtered"
    /\ dc.rigs = <<<<"2">>, <<"1">>>>
    /\ dc.jobs = <<Job("j2", <<"P">>, <<"2">>), Job("j1", <<"P">>, <<"1", "2">>)>>
    /\ dc.tmpJobs = <<"j2", "j1", "j1">>

\* C20: the value of the i-th attribute of the response is the value at
\* position i of the first time record, and the statuses follow from the
\* first record alone.
C20_FirstRecord ==
    tm.state = "classified" =>
        LET h == tm.hist
            first == h.timeRecords[1]
        IN  /\ DOMAIN tm.attribute_mapping = {h.attributes[i] : i \in DOMAIN h.attributes}
            /\ \A i \in DOMAIN h.attributes : tm.attribute_mapping[h.attributes[i]] = first[i]
            /\ \A i \in DOMAIN h.attributes :
                /\ h.attributes[i] = "HookLoad" =>
                    tm.out.HookLoadbool =
                        IF first[i] = PyFloat(1) THEN emoji_check
                        ELSE IF first[i] = PyInt(0) THEN emoji_exclamation ELSE emoji_x
                /\ h.attributes[i] = "BitStatus" =>
                    tm.out.BitStatusbool =
                        IF first[i] = PyInt(0) THEN StStr("On")
                        ELSE IF first[i] = PyFloat(1) THEN StStr("Off") ELSE StInt(emoji_x)

\* two time records that disagree: the first decides
C20_Witness ==
    /\ tm.state = "classified"
    /\ tm.hist = Hist(<<"BitStatus", "HookLoad">>,
                      <<<<PyInt(0), PyFloat(1)>>, <<PyNull, PyInt(0)>>>>)
    /\ tm.out.HookLoadbool = emoji_check /\ tm.out.BitStatusbool = StStr("On")

\* the tuple an activity item gives for job j1
TupleOf(it) ==
    <<"j1", SampleEntry.id, SampleEntry.date, IF it.hasCode THEN it.code ELSE "",
      IF it.hasDetails THEN it.text ELSE "">>
\* the payload went down one of the five paths and its header was read
Extracted ==
    /\ rp.state = "dispatched" /\ rp.branch # 0
    /\ MarkerOrder[rp.branch] = rp.p.key
    /\ ~Next24Raises(rp.p)
\* the tuples the dispatch added
NewRows == SubSeq(rp.rows, Len(rp.before) + 1, Len(rp.rows))

\* C21 as stated: for a report of one of the five schemas every activity row
\* contributes exactly one tuple, in report order, and the earlier tuples
\* stay.
C21_Claim ==
    Extracted =>
        /\ SubSeq(rp.rows, 1, Len(rp.before)) = rp.before
        /\ NewRows = [i \in DOMAIN rp.p.items |-> TupleOf(rp.p.items[i])]

\* C21 amended: the rows are read in report order; a row with the schema's
\* activity-code field (Patterson: the details field) contributes exactly one
\* tuple, a row without it none; a row of the four other schemas with a code
\* and no description ends the extraction, the tuples before it kept; the
\* tuples added earlier are never removed or changed.
C21_Accumulate ==
    rp.state = "dispatched" =>
        LET items == rp.p.items
            pat == rp.branch # 0 /\ MarkerOrder[rp.branch] = "PattersonMorningReportRevB"
            bad == {i \in DOMAIN items : ~pat /\ items[i].hasCode /\ ~items[i].hasDetails}
            stop == IF bad = {} THEN Len(items) + 1
                    ELSE CHOOSE i \in bad : \A k \in bad : i <= k
            kept == {i \in 1..(stop - 1) :
                        IF pat THEN items[i].hasDetails ELSE items[i].hasCode}
        IN  /\ SubSeq(rp.rows, 1, Len(rp.before)) = rp.before
            /\ Extracted =>
                /\ Len(NewRows) = Cardinality(kept)
                /\ \A i \in kept : NewRows[Rank(kept, i)] = TupleOf(items[i])
            /\ ~Extracted => NewRows = << >>

\* a row without a code before a coded row, after an earlier job's tuple
C21_Witness ==
    /\ Extracted /\ rp.p.key = "HandPMorningReport"
    /\ rp.before = EarlierRows
    /\ Len(rp.p.items) = 2 /\ ~rp.p.items[1].hasCode
    /\ rp.rows = EarlierRows \o <<<<"j1", "r1", "d1", "c2", "d">>>>

\* position of a wrapper call in the loop body
StepRank(fn) ==
    CASE fn = "getJobsIdCapabilities" -> 1
      [] fn = "getAttributes" -> 2
      [] fn = "historical_data_time" -> 3
      [] fn = "getReports" -> 4
      [] fn = "getReportsFileFormat" -> 5
      [] fn = "getJobsId" -> 6
      [] OTHER -> 0
Settled == {"row", "skippedZeroReport", "skippedUnrecognized"}

\* C22: the calls of a job come in the order attributes, telemetry, report
\* listing, report content, row; the classification is done before the report
\* is asked for and the row is appended after it; a call for a job is made
\* only when every job before it has its row or was skipped.
C22_Sequential ==
    /\ \A c \in 1..(Len(calls) - 1) :
          \/ calls[c][2] < calls[c + 1][2]
          \/ /\ calls[c][2] = calls[c + 1][2]
             /\ StepRank(calls[c][1]) < StepRank(calls[c + 1][1])
    /\ Len(calls) > 0 =>
          \A j \in 1..(calls[Len(calls)][2] - 1) : jobLog[j].outcome \in Settled
    /\ \A j \in DOMAIN jobLog :
          LET made == CallsOf(j)
          IN  /\ "historical_data_time" \in made => "getAttributes" \in made
              /\ jobLog[j].path \in {"full", "noReport"} => "historical_data_time" \in made
              /\ "getReports" \in made => jobLog[j].path \in {"full", "noReport"}
              /\ "getReportsFileFormat" \in made => "getReports" \in made
              /\ jobLog[j].outcome = "row" =>
                    /\ "getJobsId" \in made
                    /\ jobLog[j].path = "full" => "getReportsFileFormat" \in made
    /\ Len(RAEJobs) = Cardinality({j \in DOMAIN jobLog : jobLog[j].outcome = "row"})

\* two jobs went through the whole body one after the other
C22_Witness ==
    /\ Len(jobLog) = 2 /\ pc = "write"
    /\ jobLog[1].path = "full" /\ jobLog[1].outcome = "row"
    /\ jobLog[2].path = "full" /\ jobLog[2].outcome = "row"
    /\ Len(calls) = 13

\* the content fetch of the current job was made and returned no payload
EmptyContent ==
    /\ idx \in DOMAIN jobLog
    /\ "getReportsFileFormat" \in CallsOf(idx)
    /\ report = << >>

\* C23: when the report listing of a job is not empty and the content fetch
\* returns no payload, no exception ends the loop: the job gets its row with
\* the comment "no morning report" and default report date and id.
C23_Claim ==
    EmptyContent =>
        /\ jobLog[idx].outcome \in {"pending", "row"}
        /\ wellList = << >>
        /\ jobLog[idx].outcome = "row" =>
              /\ RAEJobs[Len(RAEJobs)][23] = "no morning report"
              /\ SubSeq(RAEJobs[Len(RAEJobs)], 25, 26) = <<"", "">>

\* C24: with answers of 200, a listing call with take >= 1 asks for further
\* pages, skip advanced by take each time, when the provider holds more jobs
\* than take, and returns every job the provider holds once, in provider
\* order; the call returns for every take >= 0.
C24_Claim ==
    (pg.state = "returned" /\ pg.take >= 1 /\ pg.o1 = Resp(200)) =>
        /\ Len(pg.held) > pg.take =>
              /\ Len(pg.res.urls) > 1
              /\ \A i \in DOMAIN pg.res.urls : pg.res.urls[i].skip = (i - 1) * pg.take
        /\ pg.res.result = pg.held

\* the column of the row that holds the status of a numeric channel
ColumnOf ==
    [HookLoad |-> 8, PumpPressure |-> 9, BlockHeight |-> 10, PumpSpm |-> 11,
     PumpSpm2 |-> 12, PumpSpm3 |-> 13, RotaryTorque |-> 14, TopDrvRpm |-> 15,
     TopDrvTorque |-> 16, BitWeightQualified |-> 17, FastRopFtHr |-> 18,
     TrigHkld |-> 19, BitPosition |-> 20]
\* the row a classified snapshot gives
ClassifiedRow == MakeRow(JobInfo("j1"), cl.out)

\* C25: a channel with no value in the snapshot has its default MISSING
\* status in the row, whatever values the other channels have.
C25_Frame ==
    cl.state = "classified" =>
        LET row == ClassifiedRow
            absent == NumericKeys \ DOMAIN cl.m
        IN  /\ \A key \in absent : row[ColumnOf[key]] = emoji_x
            /\ "BitStatus" \notin DOMAIN cl.m => row[21] = "0"
            /\ "SlipStatus" \notin DOMAIN cl.m => row[22] = "0"

\* PumpPressure 0 alone: PumpPressure is WARN, every other channel MISSING
C25_Witness ==
    /\ cl.state = "classified"
    /\ cl.m = [key \in {"PumpPressure"} |-> PyInt(0)]
    /\ ClassifiedRow[9] = emoji_exclamation
    /\ \A c \in (8..20) \ {9} : ClassifiedRow[c] = emoji_x

\* the three ways a row is emitted
RowPaths == {"emptySelection", "emptyTelemetry", "full", "noReport"}
RowOf(j) == RAEJobs[jobLog[j].row]

\* C26 as stated: every row, whichever path emitted it, has the same number
\* of fields, and that number is 25, the length of the header of the main
\* sheet.
C26_Claim ==
    \A i \in DOMAIN RAEJobs : Len(RAEJobs[i]) = 25 /\ Len(header) = 25

\* C26 amended: every row, whichever path emitted it, has 26 fields, as many
\* as the header has names, in the order of the header: the job's names, the
\* three IADC texts, the 13 status codes, BitStatus and SlipStatus, the two
\* comments, the report id and the report date.
C26_RowShape ==
    /\ Len(header) = 26
    /\ \A j \in DOMAIN jobLog :
          jobLog[j].outcome = "row" =>
             LET row == RowOf(j)
             IN  /\ jobLog[j].path \in RowPaths
                 /\ Len(row) = Len(header)
                 /\ SubSeq(row, 1, 4) = <<"Contractor", "Rig", "Operator", jobLog[j].id>>
                 /\ \A c \in 8..20 : row[c] \in {emoji_x, emoji_exclamation, emoji_check}
                 /\ jobLog[j].path \in {"emptySelection", "emptyTelemetry"} =>
                       /\ RowStatuses(row) = DefaultStatuses
                       /\ RowReport(row) = DefaultReport
                 /\ jobLog[j].path = "noReport" => row[23] = "no morning report"
                 /\ jobLog[j].path = "full" =>
                       RowReport(row) = <<"Drilling ahead", row[24], "rid", "2024-01-10">>

\* a row of the empty-selection path and a row of full processing in one run
C26_Witness ==
    /\ Len(RAEJobs) = 2 /\ Len(jobLog) = 2
    /\ jobLog[1].outcome = "row" /\ jobLog[1].path = "emptySelection"
    /\ jobLog[2].outcome = "row" /\ jobLog[2].path = "full"
    /\ Len(RAEJobs[1]) = 26 /\ Len(RAEJobs[2]) = 26

\* C28: in a row each of the 13 numeric statuses is 0, 2 or 3, BitStatus is
\* "On", "Off" or "0" and SlipStatus is "Resetting", "in", "out" or "0",
\* whatever the snapshot holds.
C28_Ranges ==
    cl.state = "classified" =>
        LET row == ClassifiedRow
        IN  /\ \A c \in 8..20 : row[c] \in {0, 2, 3}
            /\ row[21] \in {"On", "Off", "0"}
            /\ row[22] \in {"Resetting", "in", "out", "0"}

\* a negative number and a string in one snapshot
C28_Witness ==
    /\ cl.state = "classified"
    /\ DOMAIN cl.m = {"HookLoad", "SlipStatus"}
    /\ cl.m["HookLoad"] = PyFloat(-1) /\ cl.m["SlipStatus"] = PyStr("x")
    /\ ClassifiedRow[8] = 0 /\ ClassifiedRow[22] = "0"

\* an attempt raises: the request does, or r.json() on a body that is not JSON
Raises(o) == o.exc \/ ~o.json
\* the attempts that return
Answered == {k \in DOMAIN ht.os : ~Raises(ht.os[k])}
FirstAnswer == CHOOSE k \in Answered : \A n \in Answered : k <= n

\* C29 as stated: at most 3 attempts with a wait between them, None when
\* every attempt raises, and an answer with a status other than 200 is never
\* followed by another attempt.
C29_Claim ==
    ht.state = "returned" =>
        /\ ht.res.requests \in 1..3 /\ ht.res.waits = ht.res.requests - 1
        /\ Answered = {} => ht.res.result = HistNone
        /\ \A k \in 1..ht.res.requests :
              (~ht.os[k].exc /\ ht.os[k].status # 200) => ht.res.requests = k

\* C29 amended: at most 3 attempts with a wait between them; None when every
\* attempt raises; an answer whose body is JSON is returned without another
\* attempt whatever its status; an answer whose body is not JSON, 200 or
\* not, is an attempt that raises and is retried.
C29_Attempts ==
    ht.state = "returned" =>
        /\ ht.res.requests \in 1..3 /\ ht.res.waits = ht.res.requests - 1
        /\ Answered = {} => ht.res.result = HistNone /\ ht.res.requests = 3
        /\ Answered # {} =>
              /\ ht.res.requests = FirstAnswer
              /\ ht.res.result =
                    IF ht.os[FirstAnswer].status = 200 THEN HistSample ELSE HistError

\* an error page first, then a 500 with a JSON body: two attempts
C29_Witness ==
    /\ ht.state = "returned"
    /\ ht.os[1] = ErrorPage /\ ht.os[2] = Resp(500)
    /\ ht.res.requests = 2 /\ ht.res.result = HistError

\* C30: a payload with more than one marker takes the path of the first
\* marker present in the order Generic, HandP, Scan, Rapad, Patterson,
\* whatever its schema key is; the path reads the payload under its own
\* marker, so it extracts the report when that marker is the key and raises
\* when it is not.
C30_FirstMarker ==
    (rp.state = "dispatched" /\ Cardinality(Found(rp.p)) > 1) =>
        /\ rp.branch \in DOMAIN MarkerOrder
        /\ MarkerOrder[rp.branch] \in Found(rp.p)
        /\ \A j \in 1..(rp.branch - 1) : MarkerOrder[j] \notin Found(rp.p)
        /\ rp.processed = << >>
        /\ MarkerOrder[rp.branch] # rp.p.key => rp.raised /\ rp.loc = DefaultLocals
        /\ (MarkerOrder[rp.branch] = rp.p.key /\ ~Next24Raises(rp.p)) =>
              rp.loc.reportDate = rp.p.date

\* a Patterson payload that mentions Scan and HandP goes down the HandP path
C30_Witness ==
    /\ rp.state = "dispatched"
    /\ rp.p.key = "PattersonMorningReportRevB"
    /\ rp.p.mentions = {"ScanMorningReport", "HandPMorningReport"}
    /\ rp.branch = 2 /\ rp.raised

====
